---- MODULE Spec2Model ----
(***************************************************************************)
(* eyros: the staging layer (src/src/staging.rs), the Mix2 point type      *)
(* (src/src/mix.rs) and, from the specification, the write cache and the   *)
(* DB facade with its forest of trees.                                     *)
(***************************************************************************)
EXTENDS Integers, Sequences, FiniteSets, TLC

(***************************************************************************)
(* Bounds of the model.                                                    *)
(***************************************************************************)
\* rows (inserts plus deletes) in one batch call
MaxBatch == 2
\* calls made on one staging handle / one DB handle
MaxOps == 3
\* largest coordinate value
MaxCoord == 2
\* entries (inserts plus deletes) staged at one time in the runs of the staging layer
MaxStaged == 4

Coords == 0 .. MaxCoord

(***************************************************************************)
(* Mix<T> and Mix2<A,B> (mix.rs).  A and B are one-byte unsigned scalars.  *)
(***************************************************************************)
Scalar(x) == [k |-> "Scalar", x |-> x]

Interval(x0, x1) == [k |-> "Interval", x0 |-> x0, x1 |-> x1]

Mix2(v0, v1) == [v0 |-> v0, v1 |-> v1]

\* Mix<T> with lower <= upper for intervals
MixSet == {Scalar(x) : x \in Coords}
            \cup {Interval(c[1], c[2]) : c \in {d \in Coords \X Coords : d[1] <= d[2]}}

\* Bounds = ((A,B),(A,B)) = (low, high)
BoundsOf(l0, l1, h0, h1) == <<<<l0, l1>>, <<h0, h1>>>>

\* Mix2::overlaps
Overlaps(p, bbox) ==
    /\ IF p.v0.k = "Scalar"
         THEN bbox[1][1] <= p.v0.x /\ p.v0.x <= bbox[2][1]
         ELSE bbox[1][1] <= p.v0.x1 /\ p.v0.x0 <= bbox[2][1]
    /\ IF p.v1.k = "Scalar"
         THEN bbox[1][2] <= p.v1.x /\ p.v1.x <= bbox[2][2]
         ELSE bbox[1][2] <= p.v1.x1 /\ p.v1.x0 <= bbox[2][2]

\* the bytes of one coordinate, after the tag byte
MixBytes(m) == IF m.k = "Scalar" THEN <<m.x>> ELSE <<m.x0, m.x1>>

\* Mix2::write_bytes: tag byte (bit 0: v0 is an interval, bit 1: v1 is), then v0, then v1
Mix2WriteBytes(p) ==
    <<(IF p.v0.k = "Interval" THEN 1 ELSE 0) + (IF p.v1.k = "Interval" THEN 2 ELSE 0)>>
      \o MixBytes(p.v0) \o MixBytes(p.v1)

\* Mix2::count_bytes
Mix2CountBytes(p) ==
    1 + (IF p.v0.k = "Scalar" THEN 1 ELSE 2) + (IF p.v1.k = "Scalar" THEN 1 ELSE 2)

\* Mix2::count_from_bytes; 0 stands for the error "buffer too small"
Mix2CountFromBytes(buf) ==
    IF Len(buf) < 1 THEN 0
    ELSE LET n == 1 + (IF (buf[1] % 2) = 0 THEN 1 ELSE 2)
                    + (IF ((buf[1] \div 2) % 2) = 0 THEN 1 ELSE 2)
         IN IF Len(buf) < n THEN 0 ELSE n

\* Mix2::from_bytes reading bit 0 of the tag byte for both coordinates
Mix2FromBytesOneBit(src) ==
    IF Mix2CountFromBytes(src) = 0 THEN <<0, Mix2(Scalar(0), Scalar(0))>>
    ELSE LET i0 == (src[1] % 2) = 1
             o1 == IF i0 THEN 3 ELSE 2
             v0 == IF i0 THEN Interval(src[2], src[3]) ELSE Scalar(src[2])
             v1 == IF i0 /\ Len(src) >= o1 + 2 THEN Interval(src[o1 + 1], src[o1 + 2])
                   ELSE Scalar(src[o1 + 1])
         IN <<o1 + (IF i0 THEN 2 ELSE 1), Mix2(v0, v1)>>

\* Mix2::from_bytes: <<consumed, point>>; consumed = 0 stands for the error
Mix2FromBytes(src) ==
    IF Mix2CountFromBytes(src) = 0 THEN <<0, Mix2(Scalar(0), Scalar(0))>>
    ELSE LET i0 == (src[1] % 2) = 1
             i1 == ((src[1] \div 2) % 2) = 1
             o1 == IF i0 THEN 3 ELSE 2
             v0 == IF i0 THEN Interval(src[2], src[3]) ELSE Scalar(src[2])
             v1 == IF i1 THEN Interval(src[o1 + 1], src[o1 + 2]) ELSE Scalar(src[o1 + 1])
         IN <<o1 + (IF i1 THEN 2 ELSE 1), Mix2(v0, v1)>>

\* Mix2::to_bytes: the buffer of count_bytes bytes filled by write_bytes; <<>> stands
\* for the error "unexpected size while writing into buffer"
Mix2ToBytes(p) ==
    IF Len(Mix2WriteBytes(p)) # Mix2CountBytes(p) THEN <<>> ELSE Mix2WriteBytes(p)

\* PartialOrd::partial_cmp of two scalars
PartialCmp(a, b) == IF a < b THEN "Less" ELSE IF a = b THEN "Equal" ELSE "Greater"

\* the match of cmp_at on one pair of coordinates, with the scalar against an interval
\* compared as a.partial_cmp(&b0)
CmpMixForward(x, y) ==
    CASE x.k = "Scalar" /\ y.k = "Scalar" -> PartialCmp(x.x, y.x)
      [] x.k = "Interval" /\ y.k = "Scalar" ->
            IF y.x >= x.x0 /\ y.x <= x.x1 THEN "Equal" ELSE PartialCmp(x.x0, y.x)
      [] x.k = "Scalar" /\ y.k = "Interval" ->
            IF x.x >= y.x0 /\ x.x <= y.x1 THEN "Equal" ELSE PartialCmp(x.x, y.x0)
      [] OTHER ->
            IF x.x0 <= y.x1 /\ y.x0 <= x.x1 THEN "Equal" ELSE PartialCmp(x.x0, y.x0)

\* the match of cmp_at on one pair of coordinates (the same arms for v0 and for v1)
CmpMix(x, y) ==
    CASE x.k = "Scalar" /\ y.k = "Scalar" -> PartialCmp(x.x, y.x)
      [] x.k = "Interval" /\ y.k = "Scalar" ->
            IF y.x >= x.x0 /\ y.x <= x.x1 THEN "Equal" ELSE PartialCmp(x.x0, y.x)
      [] x.k = "Scalar" /\ y.k = "Interval" ->
            IF x.x >= y.x0 /\ x.x <= y.x1 THEN "Equal" ELSE PartialCmp(y.x0, x.x)
      [] OTHER ->
            IF x.x0 <= y.x1 /\ y.x0 <= x.x1 THEN "Equal" ELSE PartialCmp(x.x0, y.x0)

\* Mix2::dim
Dim == 2

\* Mix2::cmp_at
CmpAt(self, other, level) ==
    IF level % Dim = 0 THEN CmpMix(self.v0, other.v0) ELSE CmpMix(self.v1, other.v1)

(***************************************************************************)
(* (P,V) and Location codecs used by the staging logs.  V is a one-byte    *)
(* payload; a Location is written as two big-endian u32.                   *)
(***************************************************************************)
\* (P,V)::write_bytes as called by Staging::batch
PVBytes(pv) == Mix2WriteBytes(pv[1]) \o <<pv[2]>>

\* <(P,V)>::from_bytes as called by Staging::load
PVFromBytes(src) ==
    LET p == Mix2FromBytes(src)
    IN IF p[1] = 0 \/ Len(src) < p[1] + 1 THEN <<0, <<p[2], 0>>>>
       ELSE <<p[1] + 1, <<p[2], src[p[1] + 1]>>>>

U32BE(n) == <<(n \div 16777216) % 256, (n \div 65536) % 256, (n \div 256) % 256, n % 256>>

U32FromBE(b) == ((b[1] * 256 + b[2]) * 256 + b[3]) * 256 + b[4]

\* Location::write_bytes as called by Staging::batch
LocBytes(loc) == U32BE(loc[1]) \o U32BE(loc[2])

\* Location::from_bytes as called by Staging::load
LocFromBytes(src) ==
    IF Len(src) < 8 THEN <<0, <<0, 0>>>>
    ELSE <<8, <<U32FromBE(SubSeq(src, 1, 4)), U32FromBE(SubSeq(src, 5, 8))>>>>

RECURSIVE ConcatAll(_)
\* the buffer Staging::batch fills: the encodings one after the other
ConcatAll(ss) == IF ss = <<>> THEN <<>> ELSE Head(ss) \o ConcatAll(Tail(ss))

(***************************************************************************)
(* WriteCache: pending writes in front of a backing store.                 *)
(***************************************************************************)
WriteCacheOpen(store) == [backend |-> store, pending |-> <<>>]

Max(a, b) == IF a >= b THEN a ELSE b

\* one write laid over a buffer
Overlay(buf, w) ==
    [i \in 1 .. Max(Len(buf), w.offset + Len(w.data)) |->
        IF w.offset < i /\ i <= w.offset + Len(w.data) THEN w.data[i - w.offset]
        ELSE IF i <= Len(buf) THEN buf[i] ELSE 0]

RECURSIVE ApplyWrites(_, _)
ApplyWrites(buf, ws) ==
    IF ws = <<>> THEN buf ELSE ApplyWrites(Overlay(buf, Head(ws)), Tail(ws))

\* WriteCache::read(0, len): the backing store merged with the pending writes
WriteCacheContent(wc) == ApplyWrites(wc.backend, wc.pending)

\* WriteCache::len
WriteCacheLen(wc) == Len(WriteCacheContent(wc))

\* WriteCache::write
WriteCacheWrite(wc, offset, data) ==
    IF data = <<>> THEN wc
    ELSE [wc EXCEPT !.pending = Append(@, [offset |-> offset, data |-> data])]

\* WriteCache::truncate(0)
WriteCacheTruncate0(wc) == [backend |-> <<>>, pending |-> <<>>]

\* WriteCache::sync_all
WriteCacheSync(wc) == [backend |-> WriteCacheContent(wc), pending |-> <<>>]

(***************************************************************************)
(* Staging (staging.rs).                                                   *)
(***************************************************************************)
VARIABLES
    staging,    \* the Staging struct: insert_store, delete_store, inserts, deletes, delete_set
    it,         \* the StagingIterator: index and bbox
    it_state,   \* "none", "live" (created, has not returned None) or "done"
    it_out,     \* the items the caller has collected from the iterator
    it_dirty,   \* a mutating staging call was made since the iterator was created
    last,       \* the name of the latest call
    serial,     \* the caller's next payload: every inserted record carries a distinct value
    nops,       \* calls made so far
    args,       \* the locations given to the latest call when it was Staging::delete
    calc        \* a call of a function of the point type: its name, arguments and result

RECURSIVE DecodeInserts(_)
\* the first loop of Staging::load
DecodeInserts(buf) ==
    IF buf = <<>> THEN [ok |-> TRUE, v |-> <<>>]
    ELSE LET r == PVFromBytes(buf)
         IN IF r[1] = 0 THEN [ok |-> FALSE, v |-> <<>>]
            ELSE LET rest == DecodeInserts(SubSeq(buf, r[1] + 1, Len(buf)))
                 IN [ok |-> rest.ok, v |-> <<r[2]>> \o rest.v]

RECURSIVE DecodeDeletes(_)
\* the second loop of Staging::load
DecodeDeletes(buf) ==
    IF buf = <<>> THEN [ok |-> TRUE, v |-> <<>>]
    ELSE LET r == LocFromBytes(buf)
         IN IF r[1] = 0 THEN [ok |-> FALSE, v |-> <<>>]
            ELSE LET rest == DecodeDeletes(SubSeq(buf, r[1] + 1, Len(buf)))
                 IN [ok |-> rest.ok, v |-> <<r[2]>> \o rest.v]

Range(s) == {s[i] : i \in DOMAIN s}

\* Staging::load
StagingLoad(s) ==
    LET di == DecodeInserts(WriteCacheContent(s.insert_store))
        dd == DecodeDeletes(WriteCacheContent(s.delete_store))
        s1 == IF WriteCacheLen(s.insert_store) # 0 THEN [s EXCEPT !.inserts = di.v] ELSE s
        s2 == IF WriteCacheLen(s.delete_store) # 0
                THEN [s1 EXCEPT !.deletes = dd.v, !.delete_set = Range(dd.v)]
                ELSE s1
    IN [ok |-> di.ok /\ dd.ok, s |-> s2]

\* Staging::open
StagingOpen(istore, dstore) ==
    StagingLoad([insert_store |-> WriteCacheOpen(istore),
                 delete_store |-> WriteCacheOpen(dstore),
                 inserts |-> <<>>, deletes |-> <<>>, delete_set |-> {}])

\* Staging::clear_inserts
StagingClearInserts(s) ==
    [s EXCEPT !.insert_store = WriteCacheTruncate0(@), !.inserts = <<>>]

\* Staging::clear_deletes
StagingClearDeletes(s) ==
    [s EXCEPT !.delete_store = WriteCacheTruncate0(@), !.deletes = <<>>, !.delete_set = {}]

\* Staging::clear without its call of clear_deletes (line 94)
StagingClearInsertsOnly(s) == StagingClearInserts(s)

\* Staging::clear
StagingClear(s) == StagingClearDeletes(StagingClearInserts(s))

\* Vec::retain with the running index of Staging::delete: entry j stays iff j is not in del_set
Retain(v, del_set) ==
    LET keep == SelectSeq([i \in 1 .. Len(v) |-> i], LAMBDA i : (i - 1) \notin del_set)
    IN [k \in 1 .. Len(keep) |-> v[keep[k]]]

\* Staging::delete without the test delete.0 == 0 of line 111
StagingDeleteAnyTree(s, locations) ==
    [s EXCEPT !.inserts = Retain(@, {l[2] : l \in Range(locations)})]

\* Staging::delete
StagingDelete(s, locations) ==
    LET del_set == {l[2] : l \in {d \in Range(locations) : d[1] = 0}}
    IN [s EXCEPT !.inserts = Retain(@, del_set)]

\* Staging::len
StagingLen(s) == Len(s.inserts) + Len(s.deletes)

\* Staging::bytes
StagingBytes(s) == WriteCacheLen(s.insert_store) + WriteCacheLen(s.delete_store)

\* Staging::batch without the loop of lines 160-162 that fills delete_set
StagingBatchNoDeleteSet(s, inserts, deletes) ==
    LET ibuf == ConcatAll([i \in 1 .. Len(inserts) |-> PVBytes(inserts[i])])
        dbuf == ConcatAll([i \in 1 .. Len(deletes) |-> LocBytes(deletes[i])])
    IN [insert_store |-> WriteCacheWrite(s.insert_store, WriteCacheLen(s.insert_store), ibuf),
        delete_store |-> WriteCacheWrite(s.delete_store, WriteCacheLen(s.delete_store), dbuf),
        inserts |-> s.inserts \o inserts,
        deletes |-> s.deletes \o deletes,
        delete_set |-> s.delete_set]

\* Staging::batch, every write succeeding
StagingBatch(s, inserts, deletes) ==
    LET ibuf == ConcatAll([i \in 1 .. Len(inserts) |-> PVBytes(inserts[i])])
        dbuf == ConcatAll([i \in 1 .. Len(deletes) |-> LocBytes(deletes[i])])
    IN [insert_store |-> WriteCacheWrite(s.insert_store, WriteCacheLen(s.insert_store), ibuf),
        delete_store |-> WriteCacheWrite(s.delete_store, WriteCacheLen(s.delete_store), dbuf),
        inserts |-> s.inserts \o inserts,
        deletes |-> s.deletes \o deletes,
        delete_set |-> s.delete_set \cup Range(deletes)]

\* the places where Staging::batch can return an error: an encoding (lines 138, 150),
\* the length or the write of the insert log (154, 155), of the delete log (156, 157)
BatchFailPoints == {"encode", "insert_len", "insert_write", "delete_len", "delete_write"}

\* Staging::batch returning an error at one of these places: what ran before it stays done
StagingBatchFailed(s, inserts, deletes, at) ==
    LET ibuf == ConcatAll([i \in 1 .. Len(inserts) |-> PVBytes(inserts[i])])
    IN IF at \in {"delete_len", "delete_write"}
         THEN [s EXCEPT !.insert_store = WriteCacheWrite(@, WriteCacheLen(@), ibuf)]
         ELSE s

\* Staging::commit
StagingCommit(s) ==
    [s EXCEPT !.insert_store = WriteCacheSync(@), !.delete_store = WriteCacheSync(@)]

\* StagingIterator::new, called by Staging::query
StagingIteratorNew(bbox) == [index |-> 0, bbox |-> bbox]

RECURSIVE IteratorScan(_, _, _, _, _)
\* the while loop of StagingIterator::next: item is <<>> for None, <<(point, value, (0, i))>> for Some
IteratorScan(index, len, inserts, delete_set, bbox) ==
    IF index < len
      THEN IF <<0, index>> \in delete_set
             THEN IteratorScan(index + 1, len, inserts, delete_set, bbox)
             ELSE IF Overlaps(inserts[index + 1][1], bbox)
                    THEN [index |-> index + 1,
                          item |-> <<<<inserts[index + 1][1], inserts[index + 1][2], <<0, index>>>>>>]
                    ELSE IteratorScan(index + 1, len, inserts, delete_set, bbox)
      ELSE [index |-> index, item |-> <<>>]

\* StagingIterator::next without the tombstone test of line 31
StagingIteratorNextNoTombstone(i, s) == IteratorScan(i.index, Len(s.inserts), s.inserts, {}, i.bbox)

\* StagingIterator::next with the increment of line 30 skipped for the index it returns
StagingIteratorNextNoAdvance(i, s) ==
    LET r == IteratorScan(i.index, Len(s.inserts), s.inserts, s.delete_set, i.bbox)
    IN [index |-> IF r.item = <<>> THEN r.index ELSE r.index - 1, item |-> r.item]

\* StagingIterator::next
StagingIteratorNext(i, s) == IteratorScan(i.index, Len(s.inserts), s.inserts, s.delete_set, i.bbox)

(***************************************************************************)
(* Inputs of the staging calls.                                            *)
(***************************************************************************)
SamplePoints ==
    {Mix2(Interval(0, MaxCoord), Scalar(1)), Mix2(Scalar(MaxCoord), Scalar(0))}

SampleLocations == {<<0, 0>>, <<1, 0>>}

SampleBounds ==
    {BoundsOf(0, 0, MaxCoord, MaxCoord), BoundsOf(0, 1, 1, MaxCoord), BoundsOf(MaxCoord, 0, 1, MaxCoord)}

SeqsUpTo(S, n) == UNION {[1 .. k -> S] : k \in 0 .. n}

RECURSIVE SetToSeq(_)
\* the elements of a set in some fixed order
SetToSeq(S) == IF S = {} THEN <<>> ELSE LET x == CHOOSE y \in S : TRUE IN <<x>> \o SetToSeq(S \ {x})

\* the rows of one call: points to insert and distinct locations to delete
BatchInputs ==
    {io \in SeqsUpTo(SamplePoints, MaxBatch) \X {SetToSeq(D) : D \in SUBSET SampleLocations} :
        Len(io[1]) + Len(io[2]) \in 1 .. MaxBatch}

\* the records a batch inserts: the points with the next payloads
Stamp(points, first) == [i \in 1 .. Len(points) |-> <<points[i], first + i - 1>>]

\* the variables of the DB facade
VARIABLES
    trees,        \* level -> the records of files tree_L / data_L, in data-store order (<<>>: no file)
    meta,         \* level -> presence bit of the open handle
    meta_file,    \* level -> presence bit of the meta file as last synced
    pc,           \* "idle", or the step a running cascade merge is at
    merge_level,  \* the level M of the running merge
    results,      \* the items the caller collected from the latest DB.query
    q_bbox,       \* the bounds of the latest DB.query
    live,         \* the (point, value) records inserted and not deleted by the returned batches
    deleted,      \* the values of the records deleted by the returned batches
    pre,          \* the forest and the staged records as they were when the latest merge began
    interrupted,  \* the latest merge was interrupted and the database opened afresh
    saved,        \* the results and bounds of the latest query, kept by the caller over a reopen
    trail         \* the calls made on the database, in order

dvars == <<trees, meta, meta_file, pc, merge_level, results, q_bbox, live, deleted, pre,
           interrupted, saved, trail>>

cvars == <<args, calc>>

svars == <<staging, it, it_state, it_out, it_dirty, last, serial, nops, cvars>>

vars == <<svars, dvars>>

StagingInit ==
    /\ staging = StagingOpen(<<>>, <<>>).s
    /\ it = StagingIteratorNew(BoundsOf(0, 0, 0, 0))
    /\ it_state = "none"
    /\ it_out = <<>>
    /\ it_dirty = FALSE
    /\ last = "open"
    /\ serial = 0
    /\ nops = 0
    /\ args = <<>>
    /\ calc = [op |-> "idle"]

\* a mutating call that returns Ok: counted, and it marks the iterator
Mutate(name, a) ==
    /\ nops < MaxOps
    /\ nops' = nops + 1
    /\ last' = name
    /\ args' = a
    /\ it_dirty' = (it_dirty \/ it_state # "none")
    /\ UNCHANGED <<it, it_state, it_out, calc, dvars>>

SBatch ==
    \E io \in BatchInputs :
        /\ StagingLen(staging) + Len(io[1]) + Len(io[2]) <= MaxStaged
        /\ staging' = StagingBatch(staging, Stamp(io[1], serial), io[2])
        /\ serial' = serial + Len(io[1])
        /\ Mutate("batch", <<>>)

\* a batch call that returns an error
SBatchFail ==
    \E io \in BatchInputs, at \in BatchFailPoints :
        /\ nops < MaxOps
        /\ StagingLen(staging) + Len(io[1]) + Len(io[2]) <= MaxStaged
        /\ staging' = StagingBatchFailed(staging, Stamp(io[1], serial), io[2], at)
        /\ nops' = nops + 1
        /\ last' = "batch_error"
        /\ args' = <<>>
        /\ it_dirty' = (it_dirty \/ it_state # "none")
        /\ UNCHANGED <<it, it_state, it_out, serial, calc, dvars>>

SDelete ==
    \E locations \in {SetToSeq(D) : D \in SUBSET SampleLocations} \ {<<>>} :
        /\ staging' = StagingDelete(staging, locations)
        /\ Mutate("delete", locations)
        /\ UNCHANGED serial

SClear ==
    /\ staging' = StagingClear(staging)
    /\ Mutate("clear", <<>>)
    /\ UNCHANGED serial

SClearInserts ==
    /\ staging' = StagingClearInserts(staging)
    /\ Mutate("clear_inserts", <<>>)
    /\ UNCHANGED serial

SClearDeletes ==
    /\ staging' = StagingClearDeletes(staging)
    /\ Mutate("clear_deletes", <<>>)
    /\ UNCHANGED serial

SCommit ==
    /\ staging' = StagingCommit(staging)
    /\ Mutate("commit", <<>>)
    /\ UNCHANGED serial

\* the handle is dropped (the pending writes of its caches with it) and the stores are opened again
SReopen ==
    /\ nops < MaxOps
    /\ StagingOpen(staging.insert_store.backend, staging.delete_store.backend).ok
    /\ staging' = StagingOpen(staging.insert_store.backend, staging.delete_store.backend).s
    /\ it_state' = "none"
    /\ last' = "open"
    /\ nops' = nops + 1
    /\ args' = <<>>
    /\ UNCHANGED <<it, it_out, it_dirty, serial, calc, dvars>>

SQuery ==
    \E bbox \in SampleBounds :
        /\ nops < MaxOps
        /\ it' = StagingIteratorNew(bbox)
        /\ it_state' = "live"
        /\ it_out' = <<>>
        /\ it_dirty' = FALSE
        /\ last' = "query"
        /\ nops' = nops + 1
        /\ args' = <<>>
        /\ UNCHANGED <<staging, serial, calc, dvars>>

SNext ==
    /\ it_state = "live"
    /\ LET r == StagingIteratorNext(it, staging)
       IN /\ it' = [it EXCEPT !.index = r.index]
          /\ it_out' = it_out \o r.item
          /\ it_state' = IF r.item = <<>> THEN "done" ELSE "live"
    /\ UNCHANGED <<staging, it_dirty, last, serial, nops, cvars, dvars>>

StagingNext ==
    \/ SBatch
    \/ SDelete
    \/ SClear
    \/ SClearInserts
    \/ SClearDeletes
    \/ SCommit
    \/ SReopen
    \/ SQuery
    \/ SNext


(***************************************************************************)
(* The DB facade, the forest and its meta file.                            *)
(***************************************************************************)
\* records of level 0 (N0)
BaseCapacity == 2
\* highest level of the forest
MaxLevel == 3
\* calls made on one DB handle
MaxDbOps == 5

Levels == 0 .. MaxLevel

RECURSIVE Pow2(_)
Pow2(n) == IF n = 0 THEN 1 ELSE 2 * Pow2(n - 1)

\* capacity of the level-L tree
Capacity(L) == BaseCapacity * Pow2(L)

RECURSIVE SumCapacities(_, _)
\* the capacities of the present trees at levels below M
SumCapacities(mask, M) ==
    IF M = 0 THEN 0
    ELSE (IF mask[M - 1] THEN Capacity(M - 1) ELSE 0) + SumCapacities(mask, M - 1)

\* the cascade merge's level: the smallest M with
\* (capacities of the present trees below M) + staging_count <= N0 * 2^M
MergeLevel(mask, staging_count) ==
    LET fits(M) == SumCapacities(mask, M) + staging_count <= Capacity(M)
    IN IF \E M \in Levels : fits(M)
         THEN CHOOSE M \in Levels : fits(M) /\ \A m \in 0 .. M - 1 : ~fits(m)
         ELSE MaxLevel + 1

\* the byte offset of record k of a data store
DataOffset(recs, k) == Len(ConcatAll([i \in 1 .. k - 1 |-> PVBytes(recs[i])]))

\* the Location of record k of the level-L tree
TreeLocation(L, recs, k) == <<L + 1, DataOffset(recs, k)>>

\* the records of the level-L tree that are not tombstoned and, unless all are asked
\* for, overlap bbox, with their Locations
TreeItems(L, recs, delete_set, all, bbox) ==
    LET idx == SelectSeq([k \in 1 .. Len(recs) |-> k],
                         LAMBDA k : /\ TreeLocation(L, recs, k) \notin delete_set
                                    /\ (all \/ Overlaps(recs[k][1], bbox)))
    IN [j \in 1 .. Len(idx) |-> <<recs[idx[j]][1], recs[idx[j]][2], TreeLocation(L, recs, idx[j])>>]

RECURSIVE ForestItems(_, _, _, _, _, _)
\* the items of the present trees from level L up, in level order
ForestItems(L, files, mask, delete_set, all, bbox) ==
    IF L > MaxLevel THEN <<>>
    ELSE (IF mask[L] THEN TreeItems(L, files[L], delete_set, all, bbox) ELSE <<>>)
           \o ForestItems(L + 1, files, mask, delete_set, all, bbox)

RECURSIVE Drain(_, _)
\* a StagingIterator run until it returns None
Drain(i, s) ==
    LET r == StagingIteratorNext(i, s)
    IN IF r.item = <<>> THEN <<>> ELSE r.item \o Drain([i EXCEPT !.index = r.index], s)

\* DB::query: staging first, then every present tree in level order, without the tombstoned
DBQueryItems(s, files, mask, bbox) ==
    Drain(StagingIteratorNew(bbox), s)
      \o ForestItems(0, files, mask, s.delete_set, FALSE, bbox)

\* step 1 of the cascade merge: the records of the trees below M and of staging
\* that are not tombstoned
MergeRows(s, files, mask, M) ==
    LET lower == ForestItems(0, files, [L \in Levels |-> mask[L] /\ L < M], s.delete_set,
                             TRUE, BoundsOf(0, 0, 0, 0))
        staged == SelectSeq([i \in 1 .. Len(s.inserts) |-> i], LAMBDA i : <<0, i - 1>> \notin s.delete_set)
    IN [j \in 1 .. Len(lower) |-> <<lower[j][1], lower[j][2]>>]
         \o [j \in 1 .. Len(staged) |-> s.inserts[staged[j]]]

\* the bounds that hold every point
FullBounds == BoundsOf(0, 0, MaxCoord, MaxCoord)

DBBounds == {FullBounds, BoundsOf(0, 1, 1, MaxCoord)}

\* the records a full-bounds query shows
Visible(s, files, mask) ==
    LET items == DBQueryItems(s, files, mask, FullBounds)
    IN [j \in 1 .. Len(items) |-> <<items[j][1], items[j][2]>>]

\* the rows of one DB.batch: points to insert and result items whose Locations to delete
DBBatchInputs ==
    {io \in SeqsUpTo(SamplePoints, MaxBatch) \X SUBSET Range(results) :
        Len(io[1]) + Cardinality(io[2]) \in 1 .. MaxBatch}

DBInit ==
    /\ trees = [L \in Levels |-> <<>>]
    /\ meta = [L \in Levels |-> FALSE]
    /\ meta_file = [L \in Levels |-> FALSE]
    /\ pc = "idle"
    /\ merge_level = 0
    /\ results = <<>>
    /\ q_bbox = FullBounds
    /\ live = {}
    /\ deleted = {}
    /\ pre = [trees |-> [L \in Levels |-> <<>>], meta |-> [L \in Levels |-> FALSE],
              inserts |-> <<>>, deletes |-> <<>>, visible |-> <<>>]
    /\ interrupted = FALSE
    /\ saved = [results |-> <<>>, bbox |-> FullBounds]
    /\ trail = <<>>

itvars == <<it, it_state, it_out, it_dirty>>

\* DB::batch up to the threshold test: the rows go to staging, and a cascade merge
\* starts when staging holds N0 records or more
DBBatch ==
    \E io \in DBBatchInputs :
        LET dels == SetToSeq({r[3] : r \in io[2]})
            s1 == StagingBatch(staging, Stamp(io[1], serial), dels)
            M == MergeLevel(meta, StagingLen(s1))
        IN /\ pc = "idle"
           /\ Len(trail) < MaxDbOps
           /\ StagingLen(s1) >= BaseCapacity => M <= MaxLevel
           /\ staging' = s1
           /\ serial' = serial + Len(io[1])
           /\ live' = (live \cup Range(Stamp(io[1], serial))) \ {<<r[1], r[2]>> : r \in io[2]}
           /\ deleted' = deleted \cup {r[2] : r \in io[2]}
           /\ results' = <<>>
           /\ interrupted' = FALSE
           /\ trail' = Append(trail, "batch")
           /\ last' = "batch"
           /\ nops' = nops + 1
           /\ IF StagingLen(s1) >= BaseCapacity
                THEN /\ pc' = "merge"
                     /\ merge_level' = M
                     /\ pre' = [trees |-> trees, meta |-> meta, inserts |-> s1.inserts,
                                deletes |-> s1.deletes, visible |-> Visible(s1, trees, meta)]
                ELSE UNCHANGED <<pc, merge_level, pre>>
           /\ UNCHANGED <<itvars, cvars, trees, meta, meta_file, q_bbox, saved>>

\* steps 1 to 3 of the cascade merge: the new tree_M and data_M are written and the
\* presence bitmap of the handle is updated
MergeEmit ==
    /\ pc = "merge"
    /\ trees' = [trees EXCEPT ![merge_level] = MergeRows(staging, trees, meta, merge_level)]
    /\ meta' = [L \in Levels |-> IF L = merge_level THEN TRUE ELSE meta[L] /\ L > merge_level]
    /\ pc' = "emitted"
    /\ UNCHANGED <<svars, meta_file, merge_level, results, q_bbox, live, deleted, pre,
                   interrupted, saved, trail>>

\* step 4: the staging logs are truncated and the files of the lower levels dropped
MergeDrop ==
    /\ pc = "emitted"
    /\ staging' = StagingClear(staging)
    /\ trees' = [L \in Levels |-> IF L < merge_level THEN <<>> ELSE trees[L]]
    /\ pc' = "dropped"
    /\ UNCHANGED <<itvars, cvars, last, serial, nops, meta, meta_file, merge_level, results, q_bbox,
                   live, deleted, pre, interrupted, saved, trail>>

\* step 5: the meta file is synced, and DB::batch returns
MergeSync ==
    /\ pc = "dropped"
    /\ meta_file' = meta
    /\ pc' = "idle"
    /\ last' = "merge"
    /\ UNCHANGED <<staging, itvars, cvars, serial, nops, trees, meta, merge_level, results, q_bbox,
                   live, deleted, pre, interrupted, saved, trail>>

\* DB::open on what the stores hold: the meta file, the staging logs, the present trees
DBOpened ==
    /\ StagingOpen(staging.insert_store.backend, staging.delete_store.backend).ok
    /\ staging' = StagingOpen(staging.insert_store.backend, staging.delete_store.backend).s
    /\ meta' = meta_file
    /\ pc' = "idle"
    /\ results' = <<>>
    /\ last' = "open"
    /\ UNCHANGED <<itvars, cvars, serial, trees, meta_file, merge_level, q_bbox, live, deleted, pre>>

\* a running merge is interrupted before its meta update, and the database is opened afresh
DBInterrupt ==
    /\ pc \in {"merge", "emitted", "dropped"}
    /\ Len(trail) < MaxDbOps
    /\ DBOpened
    /\ interrupted' = TRUE
    /\ trail' = Append(trail, "interrupt")
    /\ nops' = nops + 1
    /\ UNCHANGED saved

\* the handle is dropped and the database opened again through the same factory
DBReopen ==
    /\ pc = "idle"
    /\ Len(trail) < MaxDbOps
    /\ DBOpened
    /\ interrupted' = FALSE
    /\ saved' = [results |-> results, bbox |-> q_bbox]
    /\ trail' = Append(trail, "reopen")
    /\ nops' = nops + 1

\* DB::query, iterated to its end
DBQuery ==
    \E bbox \in DBBounds :
        /\ pc = "idle"
        /\ Len(trail) < MaxDbOps
        /\ results' = DBQueryItems(staging, trees, meta, bbox)
        /\ q_bbox' = bbox
        /\ interrupted' = FALSE
        /\ trail' = Append(trail, "query")
        /\ last' = "query"
        /\ nops' = nops + 1
        /\ UNCHANGED <<staging, itvars, cvars, serial, trees, meta, meta_file, pc, merge_level, live,
                       deleted, pre, saved>>

DBNext ==
    \/ DBBatch
    \/ MergeEmit
    \/ MergeDrop
    \/ MergeSync
    \/ DBInterrupt
    \/ DBReopen
    \/ DBQuery

Init == StagingInit /\ DBInit

SpecDB == Init /\ [][DBNext]_vars

SpecStaging == Init /\ [][StagingNext]_vars

(***************************************************************************)
(* Calls of the codec and of the comparison of the point type.             *)
(***************************************************************************)
\* deepest tree level a comparison is made at
MaxDepth == 3

\* every Mix2 point over the coordinates
Mix2Set == {Mix2(v0, v1) : v0 \in MixSet, v1 \in MixSet}

\* p.to_bytes()
ToBytesCall ==
    /\ calc.op = "idle"
    /\ \E p \in Mix2Set :
        /\ calc' = [op |-> "to_bytes", p |-> p, count |-> Mix2CountBytes(p),
                    bytes |-> Mix2ToBytes(p)]
        /\ UNCHANGED <<staging, itvars, last, serial, nops, args, dvars>>

\* Mix2::from_bytes and Mix2::count_from_bytes on the bytes to_bytes returned
FromBytesCall ==
    /\ calc.op = "to_bytes"
    /\ calc' = [op |-> "from_bytes", p |-> calc.p, count |-> calc.count, bytes |-> calc.bytes,
                out |-> Mix2FromBytes(calc.bytes), n |-> Mix2CountFromBytes(calc.bytes)]
    /\ UNCHANGED <<staging, itvars, last, serial, nops, args, dvars>>

\* p.cmp_at(&q, level)
CmpAtCall ==
    /\ calc.op = "idle"
    /\ \E p \in Mix2Set, q \in Mix2Set, level \in 0 .. MaxDepth :
        /\ calc' = [op |-> "cmp_at", p |-> p, q |-> q, level |-> level,
                    out |-> CmpAt(p, q, level)]
        /\ UNCHANGED <<staging, itvars, last, serial, nops, args, dvars>>

CodecNext ==
    \/ ToBytesCall
    \/ FromBytesCall
    \/ CmpAtCall

SpecCodec == Init /\ [][CodecNext]_vars

\* C13: from_bytes(to_bytes(p)) returns (n, p) with n = count_bytes(p) = the length of
\* to_bytes(p), and count_from_bytes on those bytes returns the same n.
C13_Mix2RoundTrip ==
    calc.op = "from_bytes" =>
        /\ calc.out = <<calc.count, calc.p>>
        /\ Len(calc.bytes) = calc.count
        /\ calc.n = calc.count

\* C13 witness: a decoded point with an interval first and a scalar second coordinate
C13_Witness ==
    /\ calc.op = "from_bytes"
    /\ calc.p.v0.k = "Interval"
    /\ calc.p.v1.k = "Scalar"
    /\ calc.out[1] = 4

\* the coordinate of point p in dimension d
CoordAt(p, d) == IF d = 0 THEN p.v0 ELSE p.v1

\* C14: cmp_at(self, other, level) is decided by the coordinates a of self and b of
\* other in dimension level mod 2: natural order for two scalars; Equal when a scalar
\* lies in the other's interval or two intervals overlap; otherwise the order of a's
\* lower end against b for (interval, scalar), of b's lower end against a for
\* (scalar, interval), of the two lower ends for two intervals.
C14_CmpAtSemantics ==
    calc.op = "cmp_at" =>
        LET a == CoordAt(calc.p, calc.level % 2)
            b == CoordAt(calc.q, calc.level % 2)
            nat(x, y) == IF x < y THEN "Less" ELSE IF x > y THEN "Greater" ELSE "Equal"
        IN /\ (a.k = "Scalar" /\ b.k = "Scalar") => calc.out = nat(a.x, b.x)
           /\ (a.k = "Interval" /\ b.k = "Scalar") =>
                 /\ (calc.out = "Equal") = (a.x0 <= b.x /\ b.x <= a.x1)
                 /\ (calc.out # "Equal") => calc.out = nat(a.x0, b.x)
           /\ (a.k = "Scalar" /\ b.k = "Interval") =>
                 /\ (calc.out = "Equal") = (b.x0 <= a.x /\ a.x <= b.x1)
                 /\ (calc.out # "Equal") => calc.out = nat(b.x0, a.x)
           /\ (a.k = "Interval" /\ b.k = "Interval") =>
                 /\ (calc.out = "Equal") = (a.x0 <= b.x1 /\ b.x0 <= a.x1)
                 /\ (calc.out # "Equal") => calc.out = nat(a.x0, b.x0)

\* C14 witness: a scalar below an interval, compared at an odd level: the result is the
\* order of the interval's lower end against the scalar
C14_Witness ==
    /\ calc.op = "cmp_at"
    /\ calc.level % 2 = 1
    /\ calc.p.v1.k = "Scalar"
    /\ calc.q.v1.k = "Interval"
    /\ calc.p.v1.x < calc.q.v1.x0
    /\ calc.out = "Greater"

\* C21: cmp_at is antisymmetric in every dimension: cmp_at(a, b, level) is Less exactly
\* when cmp_at(b, a, level) is Greater, and Equal exactly when cmp_at(b, a, level) is
\* Equal, also for a scalar against an interval that does not contain it.
C21_CmpAtAntisymmetric ==
    calc.op = "cmp_at" =>
        LET back == CmpAt(calc.q, calc.p, calc.level)
        IN /\ (calc.out = "Less") = (back = "Greater")
           /\ (calc.out = "Equal") = (back = "Equal")

(***************************************************************************)
(* Tree blocks and Mix2::query_branch.                                     *)
(***************************************************************************)
\* the branch factors of the blocks
BranchFactors == {2, 4}

\* order_len: the number of pivots of a block, n = 2 * bf - 1
OrderLen(bf) == 2 * bf - 1

RECURSIVE Log2Floor(_)
Log2Floor(x) == IF x <= 1 THEN 0 ELSE 1 + Log2Floor(x \div 2)

\* order: the in-order index of heap position c in the perfect tree of the n pivots
Order(bf, c) ==
    LET h == Log2Floor(OrderLen(bf) + 1)
        d == Log2Floor(c + 1)
        k == c + 1 - Pow2(d)
    IN (2 * k + 1) * Pow2(h - d - 1) - 1

\* a pointer as 8 big-endian bytes; the pointers of the model are below 2^32
U64BE(n) == <<0, 0, 0, 0>> \o U32BE(n)

\* u64::from_be_bytes of the 8 bytes at byte offset off of buf
U64FromBE(buf, off) ==
    ((((((buf[off + 1] * 256 + buf[off + 2]) * 256 + buf[off + 3]) * 256 + buf[off + 4]) * 256
        + buf[off + 5]) * 256 + buf[off + 6]) * 256 + buf[off + 7]) * 256 + buf[off + 8]

\* the bytes of the data bitfield: bit j of the field is set iff child j is in data
BitfieldBytes(data, nbits) ==
    [b \in 1 .. (nbits + 7) \div 8 |->
        LET bit(j) == IF (b - 1) * 8 + j \in data THEN Pow2(j) ELSE 0
        IN bit(0) + bit(1) + bit(2) + bit(3) + bit(4) + bit(5) + bit(6) + bit(7)]

\* the bytes of one block: pivots, data bitfield, intersection pointers, bucket pointers;
\* child i < n is intersection i and child n + j is bucket slot j
EncodeBlock(bf, pivots, data, stored) ==
    LET n == OrderLen(bf)
    IN pivots
         \o BitfieldBytes(data, n + bf)
         \o ConcatAll([k \in 1 .. n + bf |-> U64BE(stored[k - 1])])

\* one turn of the while loop of query_branch, lines 277 to 314, on the popped position c;
\* an index past the end of pivots or of bitfield ends the call with a panic
BranchTurn(ctx, st, c) ==
    LET i == Order(ctx.bf, c)
        seen == [st EXCEPT !.visited = Append(@, <<c, i>>)]
    IN IF i >= ctx.n THEN [seen EXCEPT !.panic = TRUE]
       ELSE
        LET pivot == ctx.buf[i + 1]
            cmp0 == ctx.low <= pivot
            cmp1 == pivot <= ctx.high
            is_data == ((ctx.buf[ctx.d_start + i \div 8 + 1] \div Pow2(i % 8)) % 2) = 1
            offset == U64FromBE(ctx.buf, ctx.i_start + i * 8)
            st1 == IF is_data /\ offset > 0
                     THEN [seen EXCEPT !.blocks = Append(@, offset - 1)]
                     ELSE IF offset > 0
                            THEN [seen EXCEPT !.cursors = Append(@, <<offset - 1, ctx.level + 1>>)]
                            ELSE seen
            st2 == IF cmp0 /\ c * 2 + 1 < ctx.n
                     THEN [st1 EXCEPT !.bcursors = Append(@, c * 2 + 1)]
                     ELSE IF cmp0
                            THEN IF i \div 2 < ctx.bf
                                   THEN [st1 EXCEPT !.bitfield[i \div 2] = TRUE,
                                                    !.marks = @ \cup {i \div 2}]
                                   ELSE [st1 EXCEPT !.panic = TRUE, !.marks = @ \cup {i \div 2}]
                            ELSE st1
            st3 == IF st2.panic THEN st2
                   ELSE IF cmp1 /\ c * 2 + 2 < ctx.n
                     THEN [st2 EXCEPT !.bcursors = Append(@, c * 2 + 2)]
                     ELSE IF cmp1
                            THEN IF i \div 2 + 1 < ctx.bf
                                   THEN [st2 EXCEPT !.bitfield[i \div 2 + 1] = TRUE,
                                                    !.marks = @ \cup {i \div 2 + 1}]
                                   ELSE [st2 EXCEPT !.panic = TRUE, !.marks = @ \cup {i \div 2 + 1}]
                            ELSE st2
        IN st3

RECURSIVE BranchLoop(_, _)
\* the while loop of query_branch, lines 276 to 315
BranchLoop(ctx, st) ==
    IF st.panic \/ st.bcursors = <<>> THEN st
    ELSE BranchLoop(ctx, BranchTurn(ctx, [st EXCEPT !.bcursors = SubSeq(@, 1, Len(@) - 1)],
                                    st.bcursors[Len(st.bcursors)]))

RECURSIVE BranchBuckets(_, _, _)
\* the loop over the marked bucket slots, lines 316 to 331, from slot i on
BranchBuckets(ctx, st, i) ==
    IF i >= ctx.bf THEN st
    ELSE IF ~st.bitfield[i] THEN BranchBuckets(ctx, st, i + 1)
    ELSE LET j == i + ctx.n
             is_data == ((ctx.buf[ctx.d_start + j \div 8 + 1] \div Pow2(j % 8)) % 2) = 1
             offset == U64FromBE(ctx.buf, ctx.b_start + i * 8)
             st1 == IF offset > 0 /\ is_data
                      THEN [st EXCEPT !.blocks = Append(@, offset - 1)]
                      ELSE IF offset > 0
                             THEN [st EXCEPT !.cursors = Append(@, <<offset - 1, ctx.level + 1>>)]
                             ELSE st
         IN BranchBuckets(ctx, st1, i + 1)

\* Mix2::query_branch: ok is FALSE when the call panicked, and then nothing is returned;
\* visited holds the pairs (c, i) of the loop and marks the bucket slot indices written
QueryBranch(buf, bbox, bf, level) ==
    LET n == OrderLen(bf)
        dim == level % Dim
        d_start == n
        i_start == d_start + (n + bf + 7) \div 8
        b_start == i_start + n * 8
        ctx == [buf |-> buf, bf |-> bf, n |-> n, level |-> level,
                low |-> bbox[1][dim + 1], high |-> bbox[2][dim + 1],
                d_start |-> d_start, i_start |-> i_start, b_start |-> b_start]
        st0 == [bcursors |-> <<0>>, bitfield |-> [j \in 0 .. bf - 1 |-> FALSE],
                cursors |-> <<>>, blocks |-> <<>>, visited |-> <<>>, marks |-> {},
                panic |-> FALSE]
        st1 == BranchLoop(ctx, st0)
        st2 == IF st1.panic THEN st1 ELSE BranchBuckets(ctx, st1, 0)
    IN [ok |-> ~st2.panic,
        cursors |-> IF st2.panic THEN <<>> ELSE st2.cursors,
        blocks |-> IF st2.panic THEN <<>> ELSE st2.blocks,
        visited |-> st2.visited, marks |-> st2.marks]

RECURSIVE RouteFrom(_, _, _, _)
\* the build rule from heap position c on: the child of the block that gets a record
\* whose coordinate in the block's dimension is coord. Equal to pivot i: intersection
\* i (child i); Less: the left subtree, or bucket slot i/2; Greater: the right subtree,
\* or bucket slot i/2 + 1 (bucket slot j is child n + j)
RouteFrom(bf, pivots, coord, c) ==
    LET n == OrderLen(bf)
        i == Order(bf, c)
        ord == CmpMix(coord, Scalar(pivots[i + 1]))
    IN IF ord = "Equal" THEN i
       ELSE IF ord = "Less"
              THEN IF c * 2 + 1 < n THEN RouteFrom(bf, pivots, coord, c * 2 + 1)
                   ELSE n + i \div 2
              ELSE IF c * 2 + 2 < n THEN RouteFrom(bf, pivots, coord, c * 2 + 2)
                   ELSE n + i \div 2 + 1

Route(bf, pivots, coord) == RouteFrom(bf, pivots, coord, 0)

\* records in one block
MaxRecords == 2

\* the non-decreasing sequences of n pivots
SortedPivots(n) == {pv \in [1 .. n -> Coords] : \A k \in 1 .. n - 1 : pv[k] <= pv[k + 1]}

\* the sets of children whose data bit is set: none, all, every second one
DataPatterns(nchildren) ==
    {{}, 0 .. nchildren - 1, {k \in 0 .. nchildren - 1 : k % 2 = 0}}

\* a block is built: pivots in in-order position, records routed by the build rule, the
\* pointer of a child that got a record stored as (its offset + 1), 0 for the others
BuildBlock ==
    /\ calc.op = "idle"
    /\ \E bf \in BranchFactors, level \in 0 .. 1 :
        \E pivots \in SortedPivots(OrderLen(bf)), data \in DataPatterns(OrderLen(bf) + bf),
           records \in {R \in SUBSET MixSet : Cardinality(R) <= MaxRecords} :
            LET nchildren == OrderLen(bf) + bf
                used == {Route(bf, pivots, r) : r \in records}
            IN /\ \A k \in used : k < nchildren
               /\ calc' = [op |-> "block", bf |-> bf, level |-> level, pivots |-> pivots,
                           data |-> data, records |-> records,
                           stored |-> [k \in 0 .. nchildren - 1 |-> IF k \in used THEN k + 1 ELSE 0]]
    /\ UNCHANGED <<staging, itvars, last, serial, nops, args, dvars>>

\* Mix2::query_branch(buf, bbox, bf, level) on the bytes of the block
QueryBranchCall ==
    /\ calc.op = "block"
    /\ \E low \in Coords, high \in Coords :
        LET bbox == IF calc.level % Dim = 0 THEN BoundsOf(low, 0, high, MaxCoord)
                    ELSE BoundsOf(0, low, MaxCoord, high)
        IN calc' = [op |-> "query_branch", bf |-> calc.bf, level |-> calc.level,
                    pivots |-> calc.pivots, data |-> calc.data, records |-> calc.records,
                    stored |-> calc.stored, low |-> low, high |-> high,
                    out |-> QueryBranch(EncodeBlock(calc.bf, calc.pivots, calc.data, calc.stored),
                                        bbox, calc.bf, calc.level)]
    /\ UNCHANGED <<staging, itvars, last, serial, nops, args, dvars>>

BranchNext ==
    \/ BuildBlock
    \/ QueryBranchCall

SpecBranch == Init /\ [][BranchNext]_vars

\* the offsets query_branch returned, of record buckets and of interior blocks
ReturnedOffsets(out) == Range(out.blocks) \cup {cu[1] : cu \in Range(out.cursors)}

\* a coordinate overlaps [low, high]
OverlapsRange(m, low, high) ==
    IF m.k = "Scalar" THEN low <= m.x /\ m.x <= high ELSE low <= m.x1 /\ m.x0 <= high

\* C16: on a block with non-decreasing pivots whose records were routed by the build
\* rule, query_branch returns the pointer of every intersection or bucket slot that
\* holds a record overlapping the bounds in the block's dimension.
C16_QueryBranchFindsOverlapping ==
    calc.op = "query_branch" =>
        \A r \in calc.records :
            OverlapsRange(r, calc.low, calc.high) =>
                calc.stored[Route(calc.bf, calc.pivots, r)] - 1 \in ReturnedOffsets(calc.out)

\* C17: every heap position taken from the stack maps to a pivot index in 0 .. n - 1,
\* every bucket slot index marked is in 0 .. bf - 1, and the call returns.
C17_QueryBranchIndicesInRange ==
    calc.op = "query_branch" =>
        /\ \A v \in Range(calc.out.visited) : v[2] \in 0 .. OrderLen(calc.bf) - 1
        /\ \A j \in calc.out.marks : j \in 0 .. calc.bf - 1
        /\ calc.out.ok

\* the children query_branch follows: the intersection of every visited pivot and
\* every marked bucket slot
Followed(bf, out) ==
    {v[2] : v \in Range(out.visited)} \cup {OrderLen(bf) + j : j \in out.marks}

\* C18: query_branch returns no child whose stored pointer is 0, and for every child it
\* follows whose stored pointer is not 0 it returns stored - 1: as a bucket offset if
\* the child's data bit is set, as the cursor (stored - 1, level + 1) if not.
C18_QueryBranchPointers ==
    calc.op = "query_branch" =>
        LET children == DOMAIN calc.stored
        IN /\ \A b \in Range(calc.out.blocks) :
                 \E k \in children : k \in calc.data /\ calc.stored[k] # 0 /\ b = calc.stored[k] - 1
           /\ \A cu \in Range(calc.out.cursors) :
                 \E k \in children : /\ k \notin calc.data /\ calc.stored[k] # 0
                                      /\ cu = <<calc.stored[k] - 1, calc.level + 1>>
           /\ \A k \in Followed(calc.bf, calc.out) \cap children :
                 calc.stored[k] # 0 =>
                     IF k \in calc.data THEN calc.stored[k] - 1 \in Range(calc.out.blocks)
                     ELSE <<calc.stored[k] - 1, calc.level + 1>> \in Range(calc.out.cursors)

\* the staging calls, any of which may be a batch that returns an error
StagingFaultNext ==
    \/ StagingNext
    \/ SBatchFail

SpecStagingFault == Init /\ [][StagingFaultNext]_vars

\* one iterator's next() calls interleaved with batch calls on the handle it came from
LiveViewNext ==
    \/ SBatch
    \/ SQuery
    \/ SNext

SpecLiveView == Init /\ [][LiveViewNext]_vars

(***************************************************************************)
(* Properties of the staging layer.                                        *)
(***************************************************************************)
\* what the insert log and the delete log decode to, read through the write caches
ReplayedInserts(s) == DecodeInserts(WriteCacheContent(s.insert_store)).v

ReplayedDeletes(s) == DecodeDeletes(WriteCacheContent(s.delete_store)).v

\* C6: after successful staging calls in any order, the insert log decodes to exactly
\* the inserts vector and the delete log to exactly the deletes vector.
C6_LogsReplayToMemory ==
    /\ ReplayedInserts(staging) = staging.inserts
    /\ ReplayedDeletes(staging) = staging.deletes

\* the items a query over bbox owes: one per index that is not tombstoned and overlaps, in order
OwedItems(s, bbox) ==
    LET idx == SelectSeq([i \in 1 .. Len(s.inserts) |-> i - 1],
                         LAMBDA i : <<0, i>> \notin s.delete_set /\ Overlaps(s.inserts[i + 1][1], bbox))
    IN [k \in 1 .. Len(idx) |-> <<s.inserts[idx[k] + 1][1], s.inserts[idx[k] + 1][2], <<0, idx[k]>>>>]

\* C7: a staging query iterated to exhaustion with no staging mutation in between has
\* yielded exactly the items (point, value, (0, i)) of the indices i that are not in
\* delete_set and whose point overlaps the bounds, in increasing order of i.
C7_QueryYieldsOwedItems ==
    (it_state = "done" /\ ~it_dirty) => it_out = OwedItems(staging, it.bbox)

\* C7 witness: an exhausted clean query that yielded an item, skipped a tombstoned
\* index whose point overlaps, and skipped a live index whose point does not overlap
C7_Witness ==
    /\ it_state = "done" /\ ~it_dirty
    /\ Len(it_out) >= 1
    /\ \E i \in 1 .. Len(staging.inserts) :
          <<0, i - 1>> \in staging.delete_set /\ Overlaps(staging.inserts[i][1], it.bbox)
    /\ \E i \in 1 .. Len(staging.inserts) :
          <<0, i - 1>> \notin staging.delete_set /\ ~Overlaps(staging.inserts[i][1], it.bbox)

\* the (value, Location) pairs a query over all of space reports for staging state s
Reported(s) ==
    {<<s.inserts[i][2], <<0, i - 1>>>> : i \in {j \in 1 .. Len(s.inserts) : <<0, j - 1>> \notin s.delete_set}}

\* C9: a batch or a delete never changes the Location under which a staged record that
\* is still present is reported, and no two records are reported under one Location.
C9_LocationsStable ==
    [][(last' \in {"batch", "delete"} /\ nops' = nops + 1) =>
          /\ \A a \in Reported(staging), b \in Reported(staging') : a[1] = b[1] => a[2] = b[2]
          /\ \A a, b \in Reported(staging') : a[2] = b[2] => a[1] = b[1]]_vars

\* C11: a batch that returns an error has no effect: inserts, deletes and delete_set
\* are as before the call and neither log is longer or otherwise changed.
C11_FailedBatchHasNoEffect ==
    [][(last' = "batch_error" /\ nops' = nops + 1) =>
          /\ staging'.inserts = staging.inserts
          /\ staging'.deletes = staging.deletes
          /\ staging'.delete_set = staging.delete_set
          /\ WriteCacheContent(staging'.insert_store) = WriteCacheContent(staging.insert_store)
          /\ WriteCacheContent(staging'.delete_store) = WriteCacheContent(staging.delete_store)]_vars

\* C12: while a staging iterator is live, no staging call changes the vectors and the
\* tombstone set it reads.
C12_NoMutationWhileIteratorLive ==
    [][it_state = "live" =>
          /\ staging'.inserts = staging.inserts
          /\ staging'.deletes = staging.deletes
          /\ staging'.delete_set = staging.delete_set]_vars

\* C19: delete(locations) removes from inserts exactly the entries whose index, as it
\* was before the call, is named by a location with tree_id 0, keeps the others in
\* their order, and leaves deletes, delete_set and both logs as they were.
C19_DeleteRemovesNamedIndices ==
    [][(last' = "delete" /\ nops' = nops + 1) =>
          LET gone == {i \in 1 .. Len(staging.inserts) : <<0, i - 1>> \in Range(args')}
              kept == (1 .. Len(staging.inserts)) \ gone
          IN /\ Len(staging'.inserts) = Cardinality(kept)
             /\ \A i \in kept :
                   staging'.inserts[i - Cardinality({g \in gone : g < i})] = staging.inserts[i]
             /\ staging'.deletes = staging.deletes
             /\ staging'.delete_set = staging.delete_set
             /\ staging'.insert_store = staging.insert_store
             /\ staging'.delete_store = staging.delete_store]_vars

\* C19 witness: a delete that named index 0 and a location of another tree has removed
\* a record and kept a later one
C19_Witness ==
    /\ last = "delete"
    /\ {<<0, 0>>, <<1, 0>>} \subseteq Range(args)
    /\ Len(staging.inserts) >= 1
    /\ Len(ReplayedInserts(staging)) > Len(staging.inserts)
    /\ staging.inserts[1][2] > 0

\* C20: after clear the vectors and the set are empty, both logs have length 0, len
\* and bytes are 0 and no query yields an item; clear_inserts leaves deletes,
\* delete_set and the delete log as they were, clear_deletes the inserts and their log.
C20_ClearEmptiesStaging ==
    [][/\ (last' = "clear" /\ nops' = nops + 1) =>
             /\ staging'.inserts = <<>>
             /\ staging'.deletes = <<>>
             /\ staging'.delete_set = {}
             /\ WriteCacheLen(staging'.insert_store) = 0
             /\ WriteCacheLen(staging'.delete_store) = 0
             /\ StagingLen(staging') = 0
             /\ StagingBytes(staging') = 0
             /\ \A bbox \in SampleBounds :
                   StagingIteratorNext(StagingIteratorNew(bbox), staging').item = <<>>
       /\ (last' = "clear_inserts" /\ nops' = nops + 1) =>
             /\ staging'.inserts = <<>>
             /\ WriteCacheLen(staging'.insert_store) = 0
             /\ staging'.deletes = staging.deletes
             /\ staging'.delete_set = staging.delete_set
             /\ staging'.delete_store = staging.delete_store
       /\ (last' = "clear_deletes" /\ nops' = nops + 1) =>
             /\ staging'.deletes = <<>>
             /\ staging'.delete_set = {}
             /\ WriteCacheLen(staging'.delete_store) = 0
             /\ staging'.inserts = staging.inserts
             /\ staging'.insert_store = staging.insert_store]_vars

\* C20 witness: a clear of a staging layer that held inserts and deletes, in memory
\* and in its synced logs
C20_Witness ==
    /\ last = "clear"
    /\ serial > 0
    /\ nops >= 3
    /\ StagingLen(staging) = 0
    /\ StagingBytes(staging) = 0

\* C22: in every state reached by the staging calls, delete_set is exactly the set of
\* the elements of deletes, and the iterator passes over the index of a staged record
\* exactly when its Location (0, i) occurs in deletes.
C22_DeleteSetMirrorsDeletes ==
    /\ staging.delete_set = Range(staging.deletes)
    /\ \A i \in 0 .. Len(staging.inserts) - 1 :
          (IteratorScan(i, i + 1, staging.inserts, staging.delete_set, FullBounds).item = <<>>)
              = (<<0, i>> \in Range(staging.deletes))

\* C22 witness: a handle opened again on synced logs holds a record whose Location was
\* deleted by a batch: load has rebuilt deletes and delete_set from the delete log
C22_Witness ==
    /\ last = "open"
    /\ Len(staging.inserts) >= 1
    /\ <<0, 0>> \in Range(staging.deletes)
    /\ <<0, 0>> \in staging.delete_set

\* the indices of the Locations an iterator has reported
ReportedIndices(out) == {out[k][3][2] : k \in DOMAIN out}

\* index i of inserts holds a record that overlaps bbox and is not tombstoned
Due(s, i, bbox) == <<0, i>> \notin s.delete_set /\ Overlaps(s.inserts[i + 1][1], bbox)

\* C23: when the next() calls of an iterator are interleaved with batch calls, the
\* iterator reports indices in strictly increasing order and each at most once; a
\* next() call that yields returns the first index from its position on, as the vector
\* and the tombstones are at that call, that overlaps and is not tombstoned, so a
\* tombstone added before the iterator reaches an index suppresses it; and when
\* next() returns None every record then staged that overlaps and is not tombstoned
\* has been yielded, those appended after the iterator was created included.
C23_IteratorIsLiveView ==
    [][/\ \A j, k \in DOMAIN it_out' : j < k => it_out'[j][3][2] < it_out'[k][3][2]
       /\ Len(it_out') = Len(it_out) + 1 =>
             LET item == it_out'[Len(it_out')]
                 i == item[3][2]
             IN /\ i \in it.index .. Len(staging.inserts) - 1
                /\ item = <<staging.inserts[i + 1][1], staging.inserts[i + 1][2], <<0, i>>>>
                /\ Due(staging, i, it.bbox)
                /\ \A h \in it.index .. i - 1 : ~Due(staging, h, it.bbox)
       /\ (it_state = "live" /\ it_state' = "done") =>
             \A i \in 0 .. Len(staging.inserts) - 1 :
                 Due(staging, i, it.bbox) => i \in ReportedIndices(it_out')]_vars

\* C23 witness: an exhausted iterator that met batches after it was created has passed
\* over the tombstoned index 0, whose record overlaps, and has yielded index 2, which
\* only the second of two batches can have appended
C23_Witness ==
    /\ it_state = "done" /\ it_dirty
    /\ Len(staging.inserts) = 3
    /\ <<0, 0>> \in staging.delete_set
    /\ Overlaps(staging.inserts[1][1], it.bbox)
    /\ 0 \notin ReportedIndices(it_out)
    /\ 2 \in ReportedIndices(it_out)

\* low > high in some dimension
Inverted(bbox) == bbox[1][1] > bbox[2][1] \/ bbox[1][2] > bbox[2][2]

\* C10: a query over bounds with low > high in some dimension yields no item.
C10_InvertedBoundsYieldNothing ==
    (it_state # "none" /\ Inverted(it.bbox)) => it_out = <<>>

(***************************************************************************)
(* Properties of the DB facade.                                            *)
(***************************************************************************)
\* the (point, value) records of a sequence of query items
Records(items) == [j \in 1 .. Len(items) |-> <<items[j][1], items[j][2]>>]

NoDuplicate(seq) == \A i, j \in DOMAIN seq : seq[i] = seq[j] => i = j

\* only DB.batch and DB.query were called: no reopen and no interrupted merge
OnlyBatchesAndQueries == Range(trail) \subseteq {"batch", "query"}

\* C1: for bounds with low <= high, DB.query returns exactly the inserted, not deleted
\* records whose point overlaps the bounds, each exactly once.
C1_QueryReturnsLiveOverlapping ==
    (last = "query" /\ OnlyBatchesAndQueries /\ ~Inverted(q_bbox)) =>
        /\ NoDuplicate(Records(results))
        /\ Range(Records(results)) = {pv \in live : Overlaps(pv[1], q_bbox)}

\* C2: after batches that only insert, a query over bounds that hold every inserted
\* point returns exactly the inserted records, as a multiset.
C2_InsertOnlyFullQueryComplete ==
    (last = "query" /\ OnlyBatchesAndQueries /\ deleted = {} /\ q_bbox = FullBounds) =>
        /\ Len(results) = Cardinality(live)
        /\ NoDuplicate(Records(results))
        /\ Range(Records(results)) = live

\* C3: once a batch holding Delete(loc) has returned, no later query returns the
\* record loc identified in the query it came from.
C3_DeletedNeverReturned ==
    (last = "query" /\ OnlyBatchesAndQueries) =>
        \A j \in 1 .. Len(results) : results[j][2] \notin deleted

\* C4: a cascade merge leaves the multiset of records that a full-bounds query shows
\* unchanged, whatever levels were present before it.
C4_MergeKeepsVisibleRecords ==
    (last = "merge" /\ OnlyBatchesAndQueries) =>
        /\ NoDuplicate(Visible(staging, trees, meta))
        /\ Range(Visible(staging, trees, meta)) = Range(pre.visible)

\* C5: after a merge interrupted before the meta update, a fresh open finds every tree
\* that was present before the merge, unchanged, and staging holds what it held.
C5_InterruptedMergeKeepsForest ==
    interrupted =>
        /\ \A L \in Levels : pre.meta[L] => (meta[L] /\ trees[L] = pre.trees[L])
        /\ staging.inserts = pre.inserts
        /\ staging.deletes = pre.deletes

\* C15: when a cascade merge has produced the tree of level M, no tree was present at
\* level M or above before it, and every level below M is now empty or as it was: no
\* existing tree is overwritten.
C15_MergeIntoAbsentLevel ==
    (last = "merge" /\ OnlyBatchesAndQueries) =>
        /\ \A L \in Levels : L >= merge_level => ~pre.meta[L]
        /\ \A L \in Levels : L < merge_level => (trees[L] = <<>> \/ trees[L] = pre.trees[L])

\* C8: after open, batch, query, drop and reopen, the same query returns the same
\* records as before the drop.
C8_ReopenKeepsResults ==
    (trail = <<"batch", "query", "reopen", "query">> /\ q_bbox = saved.bbox) =>
        /\ Len(results) = Len(saved.results)
        /\ Range(Records(results)) = Range(Records(saved.results))

====
